---- MODULE Spec2Model ----
(***************************************************************************)
(* ConversationHandler of telegram/ext/conversationhandler.py as a state   *)
(* machine: check_update (identity extraction, state resolution, handler   *)
(* selection) and handle_update (handler invocation and commit of its      *)
(* outcome into the conversations dict).                                   *)
(***************************************************************************)
EXTENDS Naturals, Sequences, FiniteSets, TLC

(* ------------------------------ values -------------------------------- *)

\* Python's None: the default of dict.get, the "no change" outcome, the
\* absent chat, the initial current_handler.
None == "None"

\* ConversationHandler.END (-1 in the source; values are strings here).
END == "END"

\* State values that handlers return.  S1 has a handler list in `states`,
\* S2 has none.
StateVals == {"S1", "S2"}

\* Most Promise objects alive at one time.
MaxPromise == 1

\* Names for Promise objects.
PromisePool == {"P1", "P2", "P3"}

ChatIds == {"c1", "c2"}
UserIds == {"u1"}

\* Message contents; they decide which handlers accept an update.
Texts == {"start", "text", "cancel", "help", "junk"}

(* ------------------------------ updates ------------------------------- *)

Msg(kind, c, t) == [kind |-> kind, chat |-> c, user |-> "u1", text |-> t]

\* The updates that are dispatched.  kind is the attribute of the Update
\* that is set; "callback_query" with chat None is a callback query whose
\* message is missing; "other" is an Update with none of the five
\* attributes; "not_update" is an object that is no Update.
Updates ==
    {Msg("message", "c1", t) : t \in Texts}
    \cup {Msg("edited_message", "c2", "start")}
    \cup {Msg("inline_query", None, "start")}
    \cup {Msg("chosen_inline_result", None, "cancel")}
    \cup {Msg("callback_query", "c2", "text"), Msg("callback_query", None, "text")}
    \cup {Msg("other", None, "start"), Msg("not_update", None, "start")}

\* The updates of the specification with fairness: every text in one chat,
\* and one update without chat.
FewUpdates ==
    {Msg("message", "c1", t) : t \in Texts} \cup {Msg("inline_query", None, "start")}

\* check_update lines 85-110: does the update carry a user at all.
HasKey(u) ==
    u.kind \in {"message", "edited_message", "inline_query",
                "chosen_inline_result", "callback_query"}

\* check_update lines 88-107: the chat of the update, None where the branch
\* sets none.
ChatOf(u) ==
    CASE u.kind = "message" -> u.chat
      [] u.kind = "edited_message" -> u.chat
      [] u.kind = "inline_query" -> None
      [] u.kind = "chosen_inline_result" -> None
      [] u.kind = "callback_query" -> u.chat
      [] OTHER -> None

\* A key that leaves the chat out.
KeyOfUserOnly(u) == <<None, u.user>>

\* check_update line 112.
KeyOf(u) == IF ChatOf(u) # None THEN <<ChatOf(u), u.user>> ELSE <<None, u.user>>

Keys == (ChatIds \cup {None}) \X UserIds

\* None where a key is expected (the initial current_conversation).
NoKey == <<None, None>>

(* ------------------------------ handlers ------------------------------ *)

\* Handler.check_update of the configured handlers (external collaborators).
Accepts(h, u) ==
    CASE h = "E1" -> u.text \in {"start"}
      [] h = "E2" -> u.text \in {"start", "help"}
      [] h = "H1" -> u.text \in {"start", "text"}
      [] h = "H2" -> u.text \in {"text", "cancel"}
      [] h = "F1" -> u.text \in {"start", "cancel"}
      [] h = "F2" -> u.text \in {"cancel", "help"}
      [] OTHER -> FALSE

\* __init__ lines 67-72.
entry_points == <<"E1", "E2">>
states == [s \in {"S1"} |-> <<"H1", "H2">>]
fallbacks == <<"F1", "F2">>

Handlers == {"E1", "E2", "H1", "H2", "F1", "F2"}

Range(seq) == {seq[i] : i \in 1..Len(seq)}

Workers == {"w1", "w2"}

\* The update slot of a thread that processes none.
NoUpdate == [kind |-> "none", chat |-> None, user |-> None, text |-> None]

VARIABLES
    allow_reentry,          \* self.allow_reentry
    conversations,          \* self.conversations: dict key -> state or Promise
    current_conversation,   \* self.current_conversation
    current_handler,        \* self.current_handler
    promise,                \* the Promise objects: free, pending, failed or result
    pc,                     \* where each dispatching thread is
    ev,                     \* the update it is processing
    state,                  \* local `state` of check_update
    called,                 \* the handler handle_update has invoked
    new_state,              \* local `new_state` of handle_update
    last                    \* the last call that returned: arguments and result

vars == <<allow_reentry, conversations, current_conversation, current_handler,
          promise, pc, ev, state, called, new_state, last>>

(* ------------------------------ promises ------------------------------ *)

\* No stored value is taken for a Promise.
IsPromiseNever(v) == FALSE

\* check_update line 115: isinstance(state, Promise).
IsPromise(v) == v \in PromisePool

\* Promise.result() returns once the promise is done.
PromiseDone(p) == promise[p] \notin {"free", "pending"}

\* dict.get(key): None when the key is absent.
Get(d, k) == IF k \in DOMAIN d THEN d[k] ELSE None

\* d[k] = v
Put(d, k, v) == [x \in DOMAIN d \cup {k} |-> IF x = k THEN v ELSE d[x]]

\* del d[k]
Del(d, k) == [x \in DOMAIN d \ {k} |-> d[x]]

\* Promise objects nobody refers to any more are garbage.
Collect(pr, conv, st, ns, la) ==
    [p \in PromisePool |->
        IF \/ \E k \in DOMAIN conv : conv[k] = p
           \/ \E w \in Workers : st[w] = p \/ ns[w] = p
           \/ la.outcome = p \/ la.stored = p
        THEN pr[p] ELSE "free"]

(* ------------------------------ selection ----------------------------- *)

\* A for loop without break: every handler is asked and the last one that
\* accepts is kept.
ScanLast(seq, u) ==
    LET acc == {i \in 1..Len(seq) : Accepts(seq[i], u)}
    IN  [handler |-> IF acc = {} THEN None
                     ELSE seq[CHOOSE i \in acc : \A j \in acc : j <= i],
         consulted |-> seq]

\* A for loop with break over a handler list: the first handler whose
\* check_update returns True (None when the loop falls into its else), and
\* the handlers whose check_update was called.
RECURSIVE Scan(_, _)
Scan(seq, u) ==
    IF seq = <<>> THEN [handler |-> None, consulted |-> <<>>]
    ELSE IF Accepts(Head(seq), u)
         THEN [handler |-> Head(seq), consulted |-> <<Head(seq)>>]
         ELSE LET r == Scan(Tail(seq), u)
              IN  [handler |-> r.handler, consulted |-> <<Head(seq)>> \o r.consulted]

\* Entry points searched only without state: allow_reentry forgotten.
SearchEntryPointsNoReentry(st, reentry) == st = None

\* Entry points searched for every update.
SearchEntryPointsAlways(st, reentry) == TRUE

\* check_update line 124: are the entry points searched.
SearchEntryPoints(st, reentry) == st = None \/ reentry

\* check_update line 135: are the handlers of the state searched.
SearchStateHandlers(st, handler) == st # None /\ handler = None

\* check_update line 136 and `handlers or []` of line 138.
HandlersFor(st) == IF st \in DOMAIN states THEN states[st] ELSE <<>>

\* Selection that goes on to the fallbacks when no entry point accepts an
\* update of an identity without state.
SelectNoStateFallsThrough(st, u, reentry) ==
    LET ep == IF SearchEntryPoints(st, reentry)
              THEN Scan(entry_points, u)
              ELSE [handler |-> None, consulted |-> <<>>]
        sh == Scan(HandlersFor(st), u)
        fb == Scan(fallbacks, u)
    IN  IF ep.handler # None
        THEN [ok |-> TRUE, handler |-> ep.handler, consulted |-> ep.consulted]
        ELSE IF sh.handler # None
        THEN [ok |-> TRUE, handler |-> sh.handler,
              consulted |-> ep.consulted \o sh.consulted]
        ELSE [ok |-> fb.handler # None, handler |-> fb.handler,
              consulted |-> ep.consulted \o sh.consulted \o fb.consulted]

\* Selection whose entry-point loop returns False whenever it finds none,
\* also for an identity with a state.
SelectFailsAfterEntryPoints(st, u, reentry) ==
    LET ep == IF SearchEntryPoints(st, reentry)
              THEN Scan(entry_points, u)
              ELSE [handler |-> None, consulted |-> <<>>]
    IN  IF SearchEntryPoints(st, reentry) /\ ep.handler = None
        THEN [ok |-> FALSE, handler |-> None, consulted |-> ep.consulted]
        ELSE IF SearchStateHandlers(st, ep.handler)
        THEN LET sh == Scan(HandlersFor(st), u)
                 fb == Scan(fallbacks, u)
             IN  IF sh.handler # None
                 THEN [ok |-> TRUE, handler |-> sh.handler,
                       consulted |-> ep.consulted \o sh.consulted]
                 ELSE [ok |-> fb.handler # None, handler |-> fb.handler,
                       consulted |-> ep.consulted \o sh.consulted \o fb.consulted]
        ELSE [ok |-> TRUE, handler |-> ep.handler, consulted |-> ep.consulted]

\* Selection that tries the fallbacks before the handlers of the state.
SelectFallbacksFirst(st, u, reentry) ==
    LET ep == IF SearchEntryPoints(st, reentry)
              THEN Scan(entry_points, u)
              ELSE [handler |-> None, consulted |-> <<>>]
    IN  IF SearchEntryPoints(st, reentry) /\ ep.handler = None /\ st = None
        THEN [ok |-> FALSE, handler |-> None, consulted |-> ep.consulted]
        ELSE IF SearchStateHandlers(st, ep.handler)
        THEN LET sh == Scan(HandlersFor(st), u)
                 fb == Scan(fallbacks, u)
             IN  IF fb.handler # None
                 THEN [ok |-> TRUE, handler |-> fb.handler,
                       consulted |-> ep.consulted \o fb.consulted]
                 ELSE [ok |-> sh.handler # None, handler |-> sh.handler,
                       consulted |-> ep.consulted \o fb.consulted \o sh.consulted]
        ELSE [ok |-> TRUE, handler |-> ep.handler, consulted |-> ep.consulted]

\* check_update lines 121-151: ok is FALSE where the code returns False.
Select(st, u, reentry) ==
    LET ep == IF SearchEntryPoints(st, reentry)
              THEN Scan(entry_points, u)
              ELSE [handler |-> None, consulted |-> <<>>]
    IN  IF SearchEntryPoints(st, reentry) /\ ep.handler = None /\ st = None
        THEN [ok |-> FALSE, handler |-> None, consulted |-> ep.consulted]
        ELSE IF SearchStateHandlers(st, ep.handler)
        THEN LET sh == Scan(HandlersFor(st), u)
                 fb == Scan(fallbacks, u)
             IN  IF sh.handler # None
                 THEN [ok |-> TRUE, handler |-> sh.handler,
                       consulted |-> ep.consulted \o sh.consulted]
                 ELSE [ok |-> fb.handler # None, handler |-> fb.handler,
                       consulted |-> ep.consulted \o sh.consulted \o fb.consulted]
        ELSE [ok |-> TRUE, handler |-> ep.handler, consulted |-> ep.consulted]

(* ------------------------------ the log ------------------------------- *)

\* What the last returned call did: op is "check" or "handle"; state is the
\* state check_update logged at line 119; consulted the handlers whose
\* check_update it called; stored the dict entry of the key that
\* check_update read (line 113) or handle_update found before its commit;
\* ret is the returned value or the raised exception.
Log(op, u, key, stored, st, consulted, handler, outcome, ret) ==
    [op |-> op, ev |-> u, key |-> key, stored |-> stored, state |-> st,
     consulted |-> consulted, handler |-> handler, outcome |-> outcome, ret |-> ret,
     waited |-> FALSE]

\* The log of a check_update that had to wait at line 117.
Waited(la, w) == [la EXCEPT !.waited = pc[w] = "waiting"]

NoLog == Log("none", NoUpdate, NoKey, None, None, <<>>, None, None, None)

(* ------------------------------ actions ------------------------------- *)

Init ==
    /\ allow_reentry \in BOOLEAN
    /\ conversations = <<>>
    /\ current_conversation = NoKey
    /\ current_handler = None
    /\ promise = [p \in PromisePool |-> "free"]
    /\ pc = [w \in Workers |-> "idle"]
    /\ ev = [w \in Workers |-> NoUpdate]
    /\ state = [w \in Workers |-> None]
    /\ called = [w \in Workers |-> None]
    /\ new_state = [w \in Workers |-> None]
    /\ last = NoLog

\* The thread returns from a call.
Return(w, conv, la) ==
    /\ pc' = [pc EXCEPT ![w] = "idle"]
    /\ ev' = [ev EXCEPT ![w] = NoUpdate]
    /\ state' = [state EXCEPT ![w] = None]
    /\ called' = [called EXCEPT ![w] = None]
    /\ new_state' = [new_state EXCEPT ![w] = None]
    /\ last' = la
    /\ promise' = Collect(promise, conv, state', new_state', la)

\* The end of check_update with lines 154-155 run before the decision: the
\* key and the handler found, None included, are saved also when the check
\* returns False.
RouteRecordsAlways(w, u, stored, st) ==
    LET sel == Select(st, u, allow_reentry)
        la == Waited(Log("check", u, KeyOf(u), stored, st, sel.consulted, sel.handler,
                         None, IF sel.ok THEN "True" ELSE "False"), w)
    IN  /\ current_conversation' = KeyOf(u)
        /\ current_handler' = sel.handler
        /\ UNCHANGED <<allow_reentry, conversations>>
        /\ IF sel.ok
           THEN /\ pc' = [pc EXCEPT ![w] = "selected"]
                /\ ev' = [ev EXCEPT ![w] = u]
                /\ state' = [state EXCEPT ![w] = None]
                /\ last' = la
                /\ promise' = Collect(promise, conversations, state', new_state, la)
                /\ UNCHANGED <<called, new_state>>
           ELSE Return(w, conversations, la)

\* check_update lines 119-157, with the resolved state `st`.
Route(w, u, stored, st) ==
    LET sel == Select(st, u, allow_reentry)
        la == Waited(Log("check", u, KeyOf(u), stored, st, sel.consulted, sel.handler,
                         None, IF sel.ok THEN "True" ELSE "False"), w)
    IN  IF sel.ok
        THEN /\ current_conversation' = KeyOf(u)
             /\ current_handler' = sel.handler
             /\ pc' = [pc EXCEPT ![w] = "selected"]
             /\ ev' = [ev EXCEPT ![w] = u]
             /\ state' = [state EXCEPT ![w] = None]
             /\ last' = la
             /\ promise' = Collect(promise, conversations, state', new_state, la)
             /\ UNCHANGED <<allow_reentry, conversations, called, new_state>>
        ELSE /\ Return(w, conversations, la)
             /\ UNCHANGED <<allow_reentry, conversations, current_conversation,
                            current_handler>>

\* A failed Promise.result() taken for no result: the check routes on.
ResultRaisesSwallowed(w, u, stored) == Route(w, u, stored, None)

\* Promise.result() raised in check_update line 117.
ResultRaises(w, u, stored) ==
    /\ Return(w, conversations,
              Waited(Log("check", u, KeyOf(u), stored, None, <<>>, None, None,
                         "ResolutionError"), w))
    /\ UNCHANGED <<allow_reentry, conversations, current_conversation, current_handler>>

\* check_update(update), up to its return or to the wait of line 117.
CheckUpdate(w, u) ==
    /\ pc[w] = "idle"
    /\ IF ~HasKey(u)
       THEN /\ Return(w, conversations,
                      Log("check", u, NoKey, None, None, <<>>, None, None, "False"))
            /\ UNCHANGED <<allow_reentry, conversations, current_conversation,
                           current_handler>>
       ELSE LET stored == Get(conversations, KeyOf(u))
            IN  IF IsPromise(stored)
                THEN IF ~PromiseDone(stored)
                     THEN /\ pc' = [pc EXCEPT ![w] = "waiting"]
                          /\ ev' = [ev EXCEPT ![w] = u]
                          /\ state' = [state EXCEPT ![w] = stored]
                          /\ UNCHANGED <<allow_reentry, conversations,
                                         current_conversation, current_handler,
                                         promise, called, new_state, last>>
                     ELSE IF promise[stored] = "failed"
                          THEN ResultRaises(w, u, stored)
                          ELSE Route(w, u, stored, promise[stored])
                ELSE Route(w, u, stored, stored)

\* check_update from line 117 on, once the promise it waits for is done.
CheckResume(w) ==
    /\ pc[w] = "waiting"
    /\ PromiseDone(state[w])
    /\ IF promise[state[w]] = "failed"
       THEN ResultRaises(w, ev[w], state[w])
       ELSE Route(w, ev[w], state[w], promise[state[w]])


\* The values a handler callback returns directly.
Outcomes == {None, END} \cup StateVals

\* handle_update line 161: the selected handler runs and returns `out`.
Invoke(w, out, pr) ==
    /\ pc[w] \in {"selected", "unchecked"}
    /\ IF current_handler = None
       THEN /\ Return(w, conversations,
                      Log(IF pc[w] = "selected" THEN "handle" ELSE "handle_unchecked",
                          ev[w], NoKey, None, None, <<>>, None, None,
                          "AttributeError"))
            /\ UNCHANGED <<allow_reentry, conversations, current_conversation,
                           current_handler>>
       ELSE /\ pc' = [pc EXCEPT ![w] = IF pc[w] = "selected" THEN "running"
                                       ELSE "running_unchecked"]
            /\ called' = [called EXCEPT ![w] = current_handler]
            /\ new_state' = [new_state EXCEPT ![w] = out]
            /\ promise' = pr
            /\ UNCHANGED <<allow_reentry, conversations, current_conversation,
                           current_handler, ev, state, last>>

\* handle_update(update, dispatcher) is entered for an update whose
\* check_update did not return True just before: never checked, checked
\* without a match, or handled already.
CallUnchecked(w, u) ==
    /\ pc[w] = "idle"
    /\ pc' = [pc EXCEPT ![w] = "unchecked"]
    /\ ev' = [ev EXCEPT ![w] = u]
    /\ UNCHANGED <<allow_reentry, conversations, current_conversation,
                   current_handler, promise, state, called, new_state, last>>

\* handle_update line 161 with a callback that returns a value.
HandleCall(w, out) ==
    /\ out \in Outcomes
    /\ Invoke(w, out, promise)

\* handle_update line 161 with a callback that runs asynchronously: the
\* handler returns a new Promise.
HandleCallAsync(w) ==
    /\ Cardinality({p \in PromisePool : promise[p] # "free"}) < MaxPromise
    /\ LET p == CHOOSE p \in PromisePool : promise[p] = "free"
       IN  Invoke(w, p, [promise EXCEPT ![p] = "pending"])

\* Commit that only updates an entry that exists.
CommitNoCreate(conv, key, ns) ==
    IF ns = END
    THEN IF key \in DOMAIN conv
         THEN [conv |-> Del(conv, key), ret |-> "None"]
         ELSE [conv |-> conv, ret |-> "KeyError"]
    ELSE IF ns # None /\ key \in DOMAIN conv
         THEN [conv |-> Put(conv, key, ns), ret |-> "None"]
         ELSE [conv |-> conv, ret |-> "None"]

\* Commit without the END branch: END is stored like a state.
CommitEndStored(conv, key, ns) ==
    IF ns # None
    THEN [conv |-> Put(conv, key, ns), ret |-> "None"]
    ELSE [conv |-> conv, ret |-> "None"]

\* Commit whose second branch is a plain else: None is stored.
CommitNoneStored(conv, key, ns) ==
    IF ns = END
    THEN IF key \in DOMAIN conv
         THEN [conv |-> Del(conv, key), ret |-> "None"]
         ELSE [conv |-> conv, ret |-> "KeyError"]
    ELSE [conv |-> Put(conv, key, ns), ret |-> "None"]

\* handle_update lines 163-166: the new dict and the exception raised, if any.
Commit(conv, key, ns) ==
    IF ns = END
    THEN IF key \in DOMAIN conv
         THEN [conv |-> Del(conv, key), ret |-> "None"]
         ELSE [conv |-> conv, ret |-> "KeyError"]
    ELSE IF ns # None
         THEN [conv |-> Put(conv, key, ns), ret |-> "None"]
         ELSE [conv |-> conv, ret |-> "None"]

\* handle_update lines 163-166.
HandleStore(w) ==
    /\ pc[w] \in {"running", "running_unchecked"}
    /\ LET c == Commit(conversations, current_conversation, new_state[w])
       IN  /\ conversations' = c.conv
           /\ Return(w, c.conv,
                     Log(IF pc[w] = "running" THEN "handle" ELSE "handle_unchecked",
                         ev[w], current_conversation,
                         Get(conversations, current_conversation), None, <<>>,
                         called[w], new_state[w], c.ret))
    /\ UNCHANGED <<allow_reentry, current_conversation, current_handler>>

\* Promise.run: the pooled callback returns `v`.
PromiseResolve(p, v) ==
    /\ promise[p] = "pending"
    /\ promise' = [promise EXCEPT ![p] = v]
    /\ UNCHANGED <<allow_reentry, conversations, current_conversation,
                   current_handler, pc, ev, state, called, new_state, last>>

\* Promise.run: the pooled callback raises.
PromiseFail(p) ==
    /\ promise[p] = "pending"
    /\ promise' = [promise EXCEPT ![p] = "failed"]
    /\ UNCHANGED <<allow_reentry, conversations, current_conversation,
                   current_handler, pc, ev, state, called, new_state, last>>

\* One dispatching thread: check_update, then handle_update where it
\* returned True.
Dispatcher == "w1"

Next ==
    \/ \E u \in Updates : CheckUpdate(Dispatcher, u)
    \/ CheckResume(Dispatcher)
    \/ \E out \in Outcomes : HandleCall(Dispatcher, out)
    \/ HandleCallAsync(Dispatcher)
    \/ HandleStore(Dispatcher)
    \/ \E p \in PromisePool, v \in Outcomes : PromiseResolve(p, v)
    \/ \E p \in PromisePool : PromiseFail(p)

Spec == Init /\ [][Next]_vars

\* The same thread with fewer updates to dispatch.
NextFew ==
    \/ \E u \in FewUpdates : CheckUpdate(Dispatcher, u)
    \/ CheckResume(Dispatcher)
    \/ \E out \in Outcomes : HandleCall(Dispatcher, out)
    \/ HandleCallAsync(Dispatcher)
    \/ HandleStore(Dispatcher)
    \/ \E p \in PromisePool, v \in Outcomes : PromiseResolve(p, v)
    \/ \E p \in PromisePool : PromiseFail(p)

\* A thread that waits in Promise.result() runs on once the promise is done.
SpecFair == Init /\ [][NextFew]_vars /\ WF_vars(CheckResume(Dispatcher))

\* The dispatching thread also enters handle_update without a successful
\* check of the update.
NextMisuse ==
    \/ NextFew
    \/ \E u \in {Msg("message", "c1", "start"), Msg("message", "c1", "junk")} :
           CallUnchecked(Dispatcher, u)

SpecMisuse == Init /\ [][NextMisuse]_vars

\* The updates that concurrent threads dispatch: one of each of two
\* identities, each of them dispatched any number of times.
ConcUpdates == {Msg("message", "c1", "start"), Msg("inline_query", None, "start")}

\* Several threads call check_update and handle_update on the one instance.
NextConc ==
    \/ \E w \in Workers, u \in ConcUpdates : CheckUpdate(w, u)
    \/ \E w \in Workers : CheckResume(w)
    \/ \E w \in Workers, out \in Outcomes : HandleCall(w, out)
    \/ \E w \in Workers : HandleCallAsync(w)
    \/ \E w \in Workers : HandleStore(w)
    \/ \E p \in PromisePool, v \in Outcomes : PromiseResolve(p, v)
    \/ \E p \in PromisePool : PromiseFail(p)

SpecConc == Init /\ [][NextConc]_vars

TypeOK ==
    /\ allow_reentry \in BOOLEAN
    /\ DOMAIN conversations \subseteq Keys
    /\ \A k \in DOMAIN conversations : conversations[k] \in StateVals \cup PromisePool
    /\ current_conversation \in Keys \cup {NoKey}
    /\ current_handler \in Handlers \cup {None}

(* ------------------------- reading the steps ------------------------- *)

\* The step is the return of thread w from check_update.
CheckReturns(w) ==
    /\ last'.op = "check"
    /\ \/ pc[w] = "idle" /\ (pc'[w] = "selected" \/ last' # last)
       \/ pc[w] = "waiting" /\ pc'[w] # "waiting"

\* The step is the return of thread w from handle_update.
HandleReturns(w) == pc[w] = "running" /\ pc'[w] = "idle"

\* Some handler of the list accepts the update.
SomeAccepts(seq, u) == \E i \in 1..Len(seq) : Accepts(seq[i], u)

\* The first handler of the list, in declared order, that accepts the update.
FirstAcceptor(seq, u) ==
    seq[CHOOSE i \in 1..Len(seq) :
            /\ Accepts(seq[i], u)
            /\ \A j \in 1..(i - 1) : ~Accepts(seq[j], u)]

\* The handler list registered for a state, empty when there is none.
Registered(s) == IF s \in DOMAIN states THEN states[s] ELSE <<>>

\* The Store entries of all keys but k are the same before and after the step.
OthersUnchanged(k) ==
    /\ DOMAIN conversations' \ {k} = DOMAIN conversations \ {k}
    /\ \A x \in DOMAIN conversations \ {k} : conversations'[x] = conversations[x]

(* ------------------------------- claims ------------------------------- *)

\* C1, commit half: when handle_update returns for an update of identity K
\* whose handler returned v, neither END nor None, the Store maps K to v and
\* every other key is as before.
C1_CommitSets ==
    \A w \in Workers :
        HandleReturns(w) /\ new_state[w] \notin {END, None} =>
            /\ KeyOf(ev[w]) \in DOMAIN conversations'
            /\ conversations'[KeyOf(ev[w])] = new_state[w]
            /\ OthersUnchanged(KeyOf(ev[w]))

\* C1, routing half: a check of an update of K while the Store maps K to a
\* state value v uses v as the current state: it logs v, a state handler it
\* selects is one registered for v, and it selects one of them when one
\* accepts and no entry point is taken.
C1_NextCheckUsesIt ==
    \A w \in Workers :
        CheckReturns(w) /\ HasKey(last'.ev)
        /\ KeyOf(last'.ev) \in DOMAIN conversations
        /\ conversations[KeyOf(last'.ev)] \in StateVals =>
            LET v == conversations[KeyOf(last'.ev)]
                u == last'.ev
            IN  /\ last'.state = v
                /\ last'.ret = "True" =>
                       last'.handler \in Range(Registered(v)) \cup Range(fallbacks)
                           \cup (IF allow_reentry THEN Range(entry_points) ELSE {})
                /\ SomeAccepts(Registered(v), u)
                   /\ ~(allow_reentry /\ SomeAccepts(entry_points, u)) =>
                       /\ last'.ret = "True"
                       /\ last'.handler \in Range(Registered(v))

\* C1: after a successful check of an update of K and the commit of an
\* outcome v that is neither END nor None, the Store maps K to v, all other
\* keys are unchanged, and the next check for K routes on state v.
C1_SetState == [][C1_CommitSets /\ C1_NextCheckUsesIt]_vars

\* A commit has overwritten the state of an identity with another state.
C1_Witness ==
    /\ last.op = "handle" /\ last.ret = "None"
    /\ last.outcome \in StateVals /\ last.stored \in StateVals
    /\ last.outcome # last.stored
    /\ last.key = KeyOf(last.ev)
    /\ conversations[last.key] = last.outcome

\* C2: when handle_update returns for an update of identity K that had a
\* state and whose handler returned END, K is no key of the Store; and the
\* check of an update of K that follows routes as for an identity without
\* state: it succeeds iff an entry point accepts, selects the first
\* accepting entry point, and selects no state handler and no fallback.
C2_EndClears ==
    [][\A w \in Workers :
        /\ HandleReturns(w) /\ new_state[w] = END
           /\ KeyOf(ev[w]) \in DOMAIN conversations =>
               /\ KeyOf(ev[w]) \notin DOMAIN conversations'
               /\ last'.ret = "None"
        /\ CheckReturns(w) /\ HasKey(last'.ev)
           /\ last.op = "handle" /\ last.outcome = END /\ last.ret = "None"
           /\ KeyOf(last'.ev) = KeyOf(last.ev) =>
               /\ last'.state = None
               /\ last'.ret = "True" <=> SomeAccepts(entry_points, last'.ev)
               /\ last'.ret = "True" =>
                      last'.handler = FirstAcceptor(entry_points, last'.ev)
               /\ last'.ret = "False" => last'.handler = None
               /\ Range(last'.consulted) \subseteq Range(entry_points)]_vars

\* A commit of END has removed the state of an identity.
C2_Witness ==
    /\ last.op = "handle" /\ last.outcome = END /\ last.ret = "None"
    /\ last.stored \in StateVals
    /\ last.key = KeyOf(last.ev)
    /\ last.key \notin DOMAIN conversations

\* C3: when handle_update returns and the handler returned None, the whole
\* Store is as before the commit.
C3_NoChange ==
    [][\A w \in Workers :
        HandleReturns(w) /\ new_state[w] = None =>
            /\ conversations' = conversations
            /\ last'.ret = "None"]_vars

\* A commit of None has returned for an identity that has a state.
C3_Witness ==
    /\ last.op = "handle" /\ last.outcome = None /\ last.ret = "None"
    /\ last.stored \in StateVals
    /\ last.key = KeyOf(last.ev)
    /\ conversations[last.key] = last.stored

\* The handlers of the state table.
StateHandlers == UNION {Range(states[s]) : s \in DOMAIN states}

\* The current state of identity k before the step: None without an entry,
\* the result of the stored Promise, or the stored value.
CurState(k) ==
    IF k \notin DOMAIN conversations THEN None
    ELSE IF conversations[k] \in PromisePool THEN promise[conversations[k]]
    ELSE conversations[k]

\* C4: a check of an update of an identity without stored state succeeds iff
\* some entry point accepts the update, whatever allow_reentry is; it then
\* records the first accepting entry point; it calls no handler of the state
\* table and no fallback; and it returns False when no entry point accepts.
C4_NoStateEntryOnly ==
    [][\A w \in Workers :
        CheckReturns(w) /\ HasKey(last'.ev)
        /\ KeyOf(last'.ev) \notin DOMAIN conversations =>
            LET u == last'.ev
            IN  /\ last'.ret = (IF SomeAccepts(entry_points, u) THEN "True" ELSE "False")
                /\ SomeAccepts(entry_points, u) =>
                       /\ last'.handler = FirstAcceptor(entry_points, u)
                       /\ current_handler' = last'.handler
                       /\ current_conversation' = KeyOf(u)
                /\ ~SomeAccepts(entry_points, u) => last'.handler = None
                /\ Range(last'.consulted) \cap (StateHandlers \cup Range(fallbacks)) = {}]_vars

\* With allow_reentry a check without stored state has returned False for
\* an update that a fallback accepts.
C4_Witness ==
    /\ allow_reentry
    /\ last.op = "check" /\ last.ret = "False" /\ HasKey(last.ev)
    /\ last.key \notin DOMAIN conversations
    /\ SomeAccepts(fallbacks, last.ev)
    /\ last.consulted = entry_points

\* C5: a check for an identity in state S in which no entry point is taken
\* selects a handler registered for S and calls no fallback when a handler
\* of S accepts; selects the first accepting fallback when no handler of S
\* accepts (also when S has no handler list) and a fallback does; and returns
\* False when no fallback accepts either.
C5_StateThenFallback ==
    [][\A w \in Workers :
        CheckReturns(w) /\ HasKey(last'.ev)
        /\ CurState(KeyOf(last'.ev)) \in StateVals
        /\ ~(allow_reentry /\ SomeAccepts(entry_points, last'.ev)) =>
            LET u == last'.ev
                S == CurState(KeyOf(u))
            IN  IF SomeAccepts(Registered(S), u)
                THEN /\ last'.ret = "True"
                     /\ last'.handler \in Range(Registered(S))
                     /\ current_handler' = last'.handler
                     /\ Range(last'.consulted) \cap Range(fallbacks) = {}
                ELSE IF SomeAccepts(fallbacks, u)
                THEN /\ last'.ret = "True"
                     /\ last'.handler = FirstAcceptor(fallbacks, u)
                     /\ current_handler' = last'.handler
                ELSE /\ last'.ret = "False"
                     /\ last'.handler = None]_vars

\* A check in a state without handler list has selected a fallback.
C5_Witness ==
    /\ last.op = "check" /\ last.ret = "True"
    /\ last.stored \in StateVals /\ last.stored \notin DOMAIN states
    /\ last.handler \in Range(fallbacks)
    /\ current_handler = last.handler

\* C6: with allow_reentry, a check for an identity in state S selects the
\* first accepting entry point whenever an entry point accepts the update,
\* also when a handler of S or a fallback accepts it.
C6_ReentryPriority ==
    [][\A w \in Workers :
        CheckReturns(w) /\ HasKey(last'.ev)
        /\ allow_reentry
        /\ CurState(KeyOf(last'.ev)) \in StateVals
        /\ SomeAccepts(entry_points, last'.ev) =>
            /\ last'.ret = "True"
            /\ last'.handler = FirstAcceptor(entry_points, last'.ev)
            /\ current_handler' = last'.handler]_vars

\* With allow_reentry a check in state S has selected an entry point for an
\* update that a handler of S and a fallback accept as well.
C6_Witness ==
    /\ allow_reentry
    /\ last.op = "check" /\ last.ret = "True"
    /\ last.stored \in StateVals
    /\ SomeAccepts(Registered(last.stored), last.ev)
    /\ SomeAccepts(fallbacks, last.ev)
    /\ last.handler \in Range(entry_points)

\* C7: with allow_reentry, a check for an identity in state S of an update
\* that no entry point accepts goes on to the handlers of S and then to the
\* fallbacks: it succeeds iff one of them accepts and selects the first
\* accepting handler of S, else the first accepting fallback.
C7_ReentryFallthrough ==
    [][\A w \in Workers :
        CheckReturns(w) /\ HasKey(last'.ev)
        /\ allow_reentry
        /\ CurState(KeyOf(last'.ev)) \in StateVals
        /\ ~SomeAccepts(entry_points, last'.ev) =>
            LET u == last'.ev
                S == CurState(KeyOf(u))
            IN  /\ last'.ret = (IF SomeAccepts(Registered(S), u) \/ SomeAccepts(fallbacks, u)
                                THEN "True" ELSE "False")
                /\ Range(Registered(S)) \cap Range(last'.consulted) # {}
                       \/ Registered(S) = <<>>
                /\ SomeAccepts(Registered(S), u) =>
                       last'.handler = FirstAcceptor(Registered(S), u)
                /\ ~SomeAccepts(Registered(S), u) /\ SomeAccepts(fallbacks, u) =>
                       last'.handler = FirstAcceptor(fallbacks, u)]_vars

\* With allow_reentry a check in state S has selected a handler of S after
\* no entry point accepted.
C7_Witness ==
    /\ allow_reentry
    /\ last.op = "check" /\ last.ret = "True"
    /\ last.stored \in StateVals
    /\ ~SomeAccepts(entry_points, last.ev)
    /\ last.handler \in Range(Registered(last.stored))

\* C8: without allow_reentry a check for an identity in an active state
\* selects no entry point and calls none; a check selects an entry point only
\* when the identity has no state or allow_reentry is set.
C8_NoReentryNoEntryPoint ==
    [][\A w \in Workers :
        CheckReturns(w) /\ HasKey(last'.ev) =>
            /\ ~allow_reentry /\ CurState(KeyOf(last'.ev)) \in StateVals =>
                   /\ last'.handler \notin Range(entry_points)
                   /\ Range(last'.consulted) \cap Range(entry_points) = {}
            /\ last'.handler \in Range(entry_points) =>
                   allow_reentry \/ CurState(KeyOf(last'.ev)) = None]_vars

\* Without allow_reentry a check in state S has selected a state handler or a
\* fallback for an update that an entry point accepts.
C8_Witness ==
    /\ ~allow_reentry
    /\ last.op = "check" /\ last.ret = "True"
    /\ last.stored \in StateVals
    /\ SomeAccepts(entry_points, last.ev)
    /\ last.handler \notin Range(entry_points)

\* C9: when a commit for an update returns, every update of the same user
\* with another chat, or with a chat where this one has none, or with none
\* where this one has a chat, has another key, and the Store entry of that
\* key is neither created, changed nor deleted by the commit.
C9_IdentityDisjoint ==
    [][\A w \in Workers :
        HandleReturns(w) =>
            \A u2 \in Updates :
                HasKey(u2) /\ u2.user = ev[w].user /\ u2.chat # ev[w].chat =>
                    /\ KeyOf(u2) # KeyOf(ev[w])
                    /\ KeyOf(u2) \in DOMAIN conversations' <=>
                           KeyOf(u2) \in DOMAIN conversations
                    /\ KeyOf(u2) \in DOMAIN conversations =>
                           conversations'[KeyOf(u2)] = conversations[KeyOf(u2)]]_vars

\* A commit for the user in a chat has returned while the same user has
\* another state in another chat and a third without chat.
C9_Witness ==
    /\ last.op = "handle" /\ last.ret = "None" /\ last.outcome \in StateVals
    /\ last.key = <<"c1", "u1">>
    /\ DOMAIN conversations = {<<"c1", "u1">>, <<"c2", "u1">>, <<None, "u1">>}
    /\ conversations[<<"c1", "u1">>] # conversations[<<"c2", "u1">>]
    /\ conversations[<<"c1", "u1">>] # conversations[<<None, "u1">>]

\* C10, safety half: a check of an update of an identity whose Store entry is
\* a Promise returns only when the Promise is done, logs the result of the
\* Promise and never a Promise as current state, and selects as for that
\* result.
C10_UsesResolved ==
    \A w \in Workers :
        CheckReturns(w) /\ HasKey(last'.ev)
        /\ KeyOf(last'.ev) \in DOMAIN conversations
        /\ conversations[KeyOf(last'.ev)] \in PromisePool =>
            LET p == conversations[KeyOf(last'.ev)]
            IN  /\ promise[p] \notin {"free", "pending"}
                /\ last'.state \notin PromisePool
                /\ promise[p] # "failed" =>
                       /\ last'.state = promise[p]
                       /\ last'.ret \in {"True", "False"}
                       /\ promise[p] \in StateVals
                          /\ ~allow_reentry /\ SomeAccepts(Registered(promise[p]), last'.ev) =>
                              last'.handler = FirstAcceptor(Registered(promise[p]), last'.ev)

\* C10, blocking half: while the Promise is pending, the thread that checks
\* stays in check_update and the Selection Record is not written.
C10_Blocks ==
    \A w \in Workers :
        /\ pc[w] = "idle" /\ pc'[w] # "idle" /\ HasKey(ev'[w])
           /\ KeyOf(ev'[w]) \in DOMAIN conversations
           /\ conversations[KeyOf(ev'[w])] \in PromisePool
           /\ promise[conversations[KeyOf(ev'[w])]] = "pending" =>
               /\ pc'[w] = "waiting"
               /\ current_handler' = current_handler
               /\ current_conversation' = current_conversation
        /\ pc[w] = "waiting" /\ promise[state[w]] = "pending" =>
               /\ pc'[w] = "waiting"
               /\ current_handler' = current_handler
               /\ current_conversation' = current_conversation

\* C10: a check for an identity whose stored state is a Promise selects no
\* handler before the Promise is done, then routes on its result and never on
\* the Promise, and a check that waits returns once the Promise is done.
C10_PendingSerialized ==
    /\ [][C10_UsesResolved /\ C10_Blocks]_vars
    /\ \A w \in Workers :
           (pc[w] = "waiting" /\ promise[state[w]] \notin {"free", "pending"})
               ~> (pc[w] # "waiting")

\* A check that waited for a Promise has selected a handler of the state
\* the Promise resolved to.
C10_Witness ==
    /\ last.op = "check" /\ last.waited /\ last.ret = "True"
    /\ last.stored \in PromisePool
    /\ last.state \in StateVals
    /\ promise[last.stored] = last.state
    /\ last.handler \in Range(Registered(last.state))

\* C11: a handle_update entered without a successful check of its update
\* that is not yet consumed runs no handler, leaves the Store unchanged and
\* fails.
C11_UncheckedCommitFails ==
    last.op = "handle_unchecked" =>
        /\ last.handler = None
        /\ last.ret \in {"AttributeError", "InvalidOperation"}

\* C12: a handle_update whose handler returned END for an identity without
\* Store entry returns without error.
C12_EndIdempotent ==
    last.op = "handle" /\ last.outcome = END /\ last.stored = None =>
        last.ret = "None"

\* C13: an identity is a key of the Store only while its current state is
\* an active state: no key stays in the Store for an identity whose current
\* state is END.
C13_KeyIffActive ==
    \A k \in DOMAIN conversations : CurState(k) # END

\* C14 as claimed: when a thread returns from the check of an update of
\* identity K while another thread is inside handle_update for an earlier
\* update of K whose handler has returned a state, the check has used that
\* state and not the one stored before.
C14_NoStaleRead ==
    [][\A w \in Workers, x \in Workers :
        x # w /\ CheckReturns(w) /\ HasKey(last'.ev)
        /\ pc[x] = "running" /\ pc'[x] = "running"
        /\ KeyOf(ev[x]) = KeyOf(last'.ev)
        /\ new_state[x] \in StateVals =>
            last'.state = new_state[x]]_vars

\* C14 as amended: a check that does not wait uses the state the Store holds
\* for the identity when it reads it; so when the call that returned before
\* it is a commit that wrote a state v under the identity's key, it uses v.
C14_SeesReturnedCommit ==
    [][(\E w \in Workers : CheckReturns(w))
       /\ HasKey(last'.ev) /\ ~last'.waited =>
            /\ CurState(KeyOf(last'.ev)) # "failed" =>
                   last'.state = CurState(KeyOf(last'.ev))
            /\ last.op = "handle" /\ last.ret = "None"
               /\ last.outcome \in StateVals
               /\ last.key = KeyOf(last'.ev) =>
                   last'.state = last.outcome]_vars

\* A check has used the committed state of an identity while another thread
\* is inside handle_update for an update of the same identity.
C14_Witness ==
    /\ last.op = "check" /\ ~last.waited
    /\ last.state \in StateVals
    /\ last.key \in DOMAIN conversations
    /\ conversations[last.key] = last.state
    /\ \E x \in Workers :
           /\ pc[x] = "running"
           /\ KeyOf(ev[x]) = last.key
           /\ new_state[x] \in StateVals
           /\ new_state[x] # last.state

\* C19: when handle_update returns for an update, the handler it invoked
\* accepts that update and the Store entry it wrote or deleted is the one of
\* the update's identity: all other entries are as before.
C19_OwnSelection ==
    [][\A w \in Workers :
        HandleReturns(w) =>
            /\ last'.key = KeyOf(ev[w])
            /\ Accepts(called[w], ev[w])
            /\ OthersUnchanged(KeyOf(ev[w]))]_vars

\* C15: a check of an update of an identity whose stored Promise has failed
\* raises the failure of the resolution to its caller: it returns, selects
\* no handler, and leaves the Store and the Selection Record as they were.
C15_FailureSurfaces ==
    [][\A w \in Workers :
        CheckReturns(w) /\ HasKey(last'.ev)
        /\ CurState(KeyOf(last'.ev)) = "failed" =>
            /\ last'.ret = "ResolutionError"
            /\ last'.handler = None
            /\ last'.consulted = <<>>
            /\ pc'[w] = "idle"
            /\ conversations' = conversations
            /\ current_handler' = current_handler
            /\ current_conversation' = current_conversation]_vars

\* A check that waited for a Promise has raised its failure, the Promise is
\* still stored and the Selection Record still holds the earlier selection.
C15_Witness ==
    /\ last.op = "check" /\ last.ret = "ResolutionError" /\ last.waited
    /\ last.stored \in PromisePool
    /\ last.key \in DOMAIN conversations /\ conversations[last.key] = last.stored
    /\ current_handler # None /\ current_conversation = last.key

\* The reference algorithm of the selection: the handler it selects for an
\* update, the resolved state st and the reentry policy, None for no match.
Reference(st, u, reentry) ==
    IF (st = None \/ reentry) /\ SomeAccepts(entry_points, u)
    THEN FirstAcceptor(entry_points, u)
    ELSE IF st = None THEN None
    ELSE IF SomeAccepts(Registered(st), u) THEN FirstAcceptor(Registered(st), u)
    ELSE IF SomeAccepts(fallbacks, u) THEN FirstAcceptor(fallbacks, u)
    ELSE None

\* C16: a check that returns for an update with a key, with the resolved
\* current state st of the identity, returns True iff the reference
\* algorithm selects a handler for (update, st, allow_reentry), selects that
\* handler, and records it with the key in the Selection Record.
C16_EqualsReference ==
    [][\A w \in Workers :
        CheckReturns(w) /\ HasKey(last'.ev)
        /\ CurState(KeyOf(last'.ev)) # "failed" =>
            LET st == CurState(KeyOf(last'.ev))
                h == Reference(st, last'.ev, allow_reentry)
            IN  /\ last'.state = st
                /\ last'.handler = h
                /\ last'.ret = (IF h = None THEN "False" ELSE "True")
                /\ h # None => /\ current_handler' = h
                               /\ current_conversation' = KeyOf(last'.ev)]_vars

\* Without reentry a check in state S1 has asked both handlers of the state
\* and the first fallback in vain and selected the second fallback.
C16_Witness ==
    /\ ~allow_reentry
    /\ last.op = "check" /\ last.ret = "True" /\ last.state = "S1"
    /\ last.handler = fallbacks[2]
    /\ last.consulted = states["S1"] \o fallbacks
    /\ current_handler = fallbacks[2]

\* C17: a check that returns for an update of an identity whose resolved
\* current state is END returns what a check of the same update returns for
\* an identity without stored state, and selects the same handler: an entry
\* point, or none and False, and never a fallback.
C17_EndRoutesAsNone ==
    [][\A w \in Workers :
        CheckReturns(w) /\ HasKey(last'.ev)
        /\ CurState(KeyOf(last'.ev)) = END =>
            LET none == Select(None, last'.ev, allow_reentry)
            IN  /\ last'.ret = (IF none.ok THEN "True" ELSE "False")
                /\ last'.handler = none.handler
                /\ last'.handler \notin Range(fallbacks)]_vars

\* C18: after the commit of a Promise for an identity that had the state v,
\* a Promise whose callback then returns None, the next check for the
\* identity routes on v: it logs v and selects what the selection gives for v.
C18_NoneResultKeepsState ==
    [][\A w \in Workers :
        CheckReturns(w) /\ HasKey(last'.ev)
        /\ last.op = "handle" /\ last.ret = "None"
        /\ last.outcome \in PromisePool /\ promise[last.outcome] = None
        /\ last.stored \in StateVals
        /\ KeyOf(last'.ev) = last.key =>
            LET sel == Select(last.stored, last'.ev, allow_reentry)
            IN  /\ last'.state = last.stored
                /\ last'.handler = sel.handler
                /\ last'.ret = (IF sel.ok THEN "True" ELSE "False")]_vars

\* C20: a step that returns from check_update leaves the Store as it was,
\* a stored Promise it resolved included; when the check does not return
\* True the Selection Record is as it was; the Selection Record changes
\* only in a step that returns True from check_update, to the key and the
\* handler of that check; and the Store changes only in a step that returns
\* from handle_update.
C20_Frame ==
    [][/\ \A w \in Workers :
            CheckReturns(w) =>
                /\ conversations' = conversations
                /\ last'.stored \in PromisePool =>
                       /\ last'.key \in DOMAIN conversations'
                       /\ conversations'[last'.key] = last'.stored
                /\ last'.ret # "True" =>
                       /\ current_handler' = current_handler
                       /\ current_conversation' = current_conversation
       /\ <<current_handler', current_conversation'>>
              # <<current_handler, current_conversation>> =>
              \E w \in Workers :
                  /\ CheckReturns(w) /\ last'.ret = "True"
                  /\ current_handler' = last'.handler
                  /\ current_conversation' = last'.key
       /\ conversations' # conversations => \E w \in Workers : HandleReturns(w)]_vars

\* A check of an update of another identity has found no handler after a
\* stored Promise was resolved for it, and the Selection Record still holds
\* the selection of the earlier check.
C20_Witness ==
    /\ last.op = "check" /\ last.ret = "False" /\ HasKey(last.ev)
    /\ last.stored \in PromisePool
    /\ conversations[last.key] = last.stored
    /\ current_handler # None
    /\ current_conversation # last.key

====
